---- MODULE Spec2Model ----
(***************************************************************************)
(* A model of the publishing pipeline of cli/tools/registry/mod.rs:        *)
(* the manifest verifier (verify_version_manifest), the authorizer         *)
(* (get_auth_headers), the scope/package ensurer, the upload state machine *)
(* (publish_package) and the orchestrator (perform_publish).               *)
(***************************************************************************)
EXTENDS Integers, Sequences, FiniteSets, TLC

(***************************************************************************)
(* Optional values (Rust Option, or a JSON field that may be missing).     *)
(***************************************************************************)
None == [some |-> FALSE]

Some(v) == [some |-> TRUE, v |-> v]

Range(s) == {s[i] : i \in 1..Len(s)}

\* every partial map from a subset of D to V
PartialMaps(D, V) == UNION {[S -> V] : S \in SUBSET D}

\* every sequence that lists each element of S exactly once
Orders(S) == {s \in [1..Cardinality(S) -> S] : Range(s) = S}

(***************************************************************************)
(* The manifest verifier.                                                  *)
(***************************************************************************)
Paths == {"mod.ts", "a.ts"}

Hashes == {"abc123", "lol123"}

Specifiers == {".", "./sub"}

Targets == {"./mod.ts", "./a.ts"}

\* a tarball file: the fields verify_version_manifest reads
TarballFile == [path_str : Paths, hash : Hashes]

\* tarball.files: a Vec of files, one per path of the package directory
TarballFiles ==
  {fs \in UNION {[1..n -> TarballFile] : n \in 0..Cardinality(Paths)} :
     \A i, j \in 1..Len(fs) : fs[i].path_str = fs[j].path_str => i = j}

\* the part of a PreparedPublishPackage that verify_version_manifest reads
PackageContent == [files : TarballFiles, exports : PartialMaps(Specifiers, Targets)]

\* a JSON entry of the manifest map: its checksum field may be missing
JsonEntry == [checksum : {None} \cup {Some(h) : h \in Hashes}]

\* the server's bytes: not JSON at all, or a JSON object whose fields
\* "manifest" and "exports" may be missing
MetaBytes ==
  [json : {FALSE}] \cup
  [json : {TRUE},
   manifest : {None} \cup {Some(m) : m \in PartialMaps(Paths, JsonEntry)},
   exports : {None} \cup {Some(e) : e \in PartialMaps(Specifiers, Targets)}]

\* serde_json::from_slice::<VersionManifest>: every field of VersionManifest
\* and of ManifestEntry is required
DecodesAsVersionManifest(meta) ==
  /\ meta.json
  /\ meta.manifest.some
  /\ meta.exports.some
  /\ \A p \in DOMAIN meta.manifest.v : meta.manifest.v[p].checksum.some

VersionManifestOf(meta) ==
  [manifest |-> [p \in DOMAIN meta.manifest.v |-> meta.manifest.v[p].checksum.v],
   exports |-> meta.exports.v]

Ok == [ok |-> TRUE, err |-> <<>>]

Err(e) == [ok |-> FALSE, err |-> e]

\* package.tarball.files.iter().find(|f| f.path_str == path): the index of
\* the first file with that path, 0 when there is none
FindFile(files, path) ==
  IF \E i \in 1..Len(files) : files[i].path_str = path
  THEN CHOOSE i \in 1..Len(files) :
         /\ files[i].path_str = path
         /\ \A j \in 1..(i - 1) : files[j].path_str # path
  ELSE 0

\* the loop over manifest.manifest, in the iteration order `order`
RECURSIVE CheckManifestEntries(_, _, _, _)
CheckManifestEntries(manifest, files, order, k) ==
  IF k > Len(order) THEN Ok
  ELSE LET path == order[k]
           i == FindFile(files, path)
       IN IF i = 0 THEN Err(<<"File not found in the tarball", path>>)
          ELSE IF files[i].hash # manifest[path]
          THEN Err(<<"Checksum mismatch", path, manifest[path], files[i].hash>>)
          ELSE CheckManifestEntries(manifest, files, order, k + 1)

\* the loop over manifest.exports, in the iteration order `order`
RECURSIVE CheckManifestExports(_, _, _, _)
CheckManifestExports(exports, pkgExports, order, k) ==
  IF k > Len(order) THEN Ok
  ELSE LET specifier == order[k]
       IN IF specifier \notin DOMAIN pkgExports
          THEN Err(<<"Export not found in the package", specifier>>)
          ELSE IF pkgExports[specifier] # exports[specifier]
          THEN Err(<<"Export mismatch", specifier, exports[specifier],
                     pkgExports[specifier]>>)
          ELSE CheckManifestExports(exports, pkgExports, order, k + 1)

\* mutant: the count of manifest entries is not compared with the tarball's
VerifyNoCountCheck(meta, package, fileOrder, exportOrder) ==
  IF ~DecodesAsVersionManifest(meta) THEN Err(<<"decode">>)
  ELSE LET m == VersionManifestOf(meta)
           r == CheckManifestEntries(m.manifest, package.files, fileOrder, 1)
       IN IF ~r.ok THEN r
          ELSE CheckManifestExports(m.exports, package.exports, exportOrder, 1)

\* mutant: the checksum comparison is inverted
VerifyChecksumInverted(meta, package, fileOrder, exportOrder) ==
  IF ~DecodesAsVersionManifest(meta) THEN Err(<<"decode">>)
  ELSE LET m == VersionManifestOf(meta)
       IN IF Cardinality(DOMAIN m.manifest) # Len(package.files)
          THEN Err(<<"Mismatch in the number of files in the manifest">>)
          ELSE IF \E p \in DOMAIN m.manifest :
                    /\ FindFile(package.files, p) # 0
                    /\ package.files[FindFile(package.files, p)].hash = m.manifest[p]
          THEN Err(<<"Checksum mismatch">>)
          ELSE CheckManifestExports(m.exports, package.exports, exportOrder, 1)

\* mutant: a missing exports map decodes as an empty one (#[serde(default)])
VerifyDefaultExports(meta, package, fileOrder, exportOrder) ==
  IF ~(/\ meta.json
       /\ meta.manifest.some
       /\ \A p \in DOMAIN meta.manifest.v : meta.manifest.v[p].checksum.some)
  THEN Err(<<"decode">>)
  ELSE LET manifest == [p \in DOMAIN meta.manifest.v |-> meta.manifest.v[p].checksum.v]
       IN IF Cardinality(DOMAIN manifest) # Len(package.files)
          THEN Err(<<"Mismatch in the number of files in the manifest">>)
          ELSE LET r == CheckManifestEntries(manifest, package.files, fileOrder, 1)
               IN IF ~r.ok \/ ~meta.exports.some THEN r
                  ELSE CheckManifestExports(meta.exports.v, package.exports,
                                            exportOrder, 1)

\* verify_version_manifest(meta_bytes, package); fileOrder and exportOrder are
\* the iteration orders of the two HashMaps of the decoded manifest
VerifyVersionManifest(meta, package, fileOrder, exportOrder) ==
  IF ~DecodesAsVersionManifest(meta) THEN Err(<<"decode">>)
  ELSE LET m == VersionManifestOf(meta)
       IN IF Cardinality(DOMAIN m.manifest) # Len(package.files)
          THEN Err(<<"Mismatch in the number of files in the manifest",
                     Len(package.files), Cardinality(DOMAIN m.manifest)>>)
          ELSE LET r == CheckManifestEntries(m.manifest, package.files, fileOrder, 1)
               IN IF ~r.ok THEN r
                  ELSE CheckManifestExports(m.exports, package.exports,
                                            exportOrder, 1)

\* the iteration orders a decoded manifest can be walked in
FileOrders(meta) ==
  IF DecodesAsVersionManifest(meta) THEN Orders(DOMAIN meta.manifest.v) ELSE {<<>>}

ExportOrders(meta) ==
  IF DecodesAsVersionManifest(meta) THEN Orders(DOMAIN meta.exports.v) ELSE {<<>>}

\* a manifest synthesized from a package's own files and exports
SynthesizedMeta(package) ==
  [json |-> TRUE,
   manifest |-> Some([p \in {package.files[i].path_str : i \in 1..Len(package.files)} |->
                        [checksum |-> Some(package.files[FindFile(package.files, p)].hash)]]),
   exports |-> Some(package.exports)]

(***************************************************************************)
(* The workspace handed to perform_publish.                                *)
(***************************************************************************)
ScopeNames == <<"std", "luca">>

VersionNames == <<"1.0.0", "2.0.0">>

\* the tarball and exports every package of a run carries (the package of the
\* unit tests, with one export)
RunContent ==
  [files |-> <<[path_str |-> "mod.ts", hash |-> "abc123"]>>,
   exports |-> [s \in {"."} |-> "./mod.ts"]]

\* the i-th prepared package: prepare_publish splits the member's name
\* "@scope/package" at the first '/', so distinct names give distinct
\* (scope, package) pairs
PreparedPackage(i) ==
  [scope |-> ScopeNames[((i - 1) % Len(ScopeNames)) + 1],
   package |-> (i - 1) \div Len(ScopeNames),
   version |-> VersionNames[((i - 1) % Len(VersionNames)) + 1],
   content |-> RunContent]

\* mutant: the key of the authorizations map leaves out the package name
AuthKeyNoPackage(pkg) == <<pkg.scope, 0, pkg.version>>

\* the key of the authorizations map
AuthKey(pkg) == <<pkg.scope, pkg.package, pkg.version>>

\* the chunk size of packages.chunks(16) and permissions.chunks(16)
ChunkSize == 16

\* mutant: chunks of one package less
PackageChunkShort(n, k) ==
  {i \in 1..n : (k - 1) * (ChunkSize - 1) < i /\ i <= k * (ChunkSize - 1)}

\* the positions of the k-th chunk (k from 1) of packages.chunks(16)
PackageChunk(n, k) == {i \in 1..n : (k - 1) * ChunkSize < i /\ i <= k * ChunkSize}

\* the number of chunks permissions.chunks(16) yields
NumChunks(n) == (n + ChunkSize - 1) \div ChunkSize

AuthMethods == {"Interactive", "Token", "Oidc"}

\* the token of AuthMethod::Token and the tokens the registry / the OIDC
\* endpoint can answer with
StaticToken == "tok"

TokenValues == {"t1", "t2"}

Verifiers == {"uuid1", "uuid2"}

\* mutant: the challenge is the hash of another uuid than the verifier
ChallengeOfOtherUuid(verifier) == <<"base64", "sha256", "uuid1">>

\* BASE64_STANDARD.encode(sha2::Sha256::digest(&verifier))
Challenge(verifier) == <<"base64", "sha256", verifier>>

Bearer(token) == <<"Bearer", token>>

GithubOidc(value) == <<"githuboidc", value>>

\* HashMap::insert of one authorization for each package of a set of positions
InsertAll(map, pkgs, positions, authorization) ==
  [key \in DOMAIN map \cup {AuthKey(pkgs[i]) : i \in positions} |->
     IF \E i \in positions : AuthKey(pkgs[i]) = key THEN authorization ELSE map[key]]

EmptyMap == [key \in {} |-> None]

(***************************************************************************)
(* State                                                                   *)
(***************************************************************************)
VARIABLES
  v_meta, v_package, v_result,  \* the inputs and the result of a verifier call
  packages,        \* the Vec of prepared packages of perform_publish
  deps,            \* the publish-order graph's edges: deps[a] = what a depends on
  auth_method,     \* AuthMethod
  env,             \* environment variables, stdin and flags read by the run
  publish_flags,   \* --dry-run, and what publish finds before perform_publish
  registry,        \* the scopes and packages that exist on the registry
  pc,              \* where perform_publish is
  result,          \* what perform_publish returned
  ens,             \* locals of ensure_scopes_and_packages_exist
  auth,            \* locals of get_auth_headers
  authorizations,  \* the map of authorizations
  prepared_package_by_name,  \* names still in the orchestrator's map
  graph,           \* the PublishOrderGraph
  futures,         \* the JoinSet: names of the spawned tasks not yet joined
  tasks,           \* each spawned publish_package task
  hist             \* history: what was done so far

verify_vars == <<v_meta, v_package, v_result>>

\* what no step of a run changes
const_vars ==
  <<v_meta, v_package, v_result, packages, deps, auth_method, env, publish_flags>>

run_vars ==
  <<packages, deps, auth_method, env, publish_flags, registry, pc, result, ens, auth,
    authorizations, prepared_package_by_name, graph, futures, tasks, hist>>

vars == <<verify_vars, run_vars>>

N == Len(packages)

Names == 1..N


PkgName(i) == <<packages[i].scope, packages[i].package>>

\* perform_publish returns: nothing runs after it, the JoinSet is dropped
Return(r) ==
  /\ pc' = "done"
  /\ result' = r

(***************************************************************************)
(* ensure_scopes_and_packages_exist and check_if_scope_and_package_exist   *)
(***************************************************************************)
EnsIdle ==
  [i |-> 1, step |-> "scope", needs_scope |-> FALSE, missing |-> <<>>,
   response |-> None]

\* the status the registry answers an existence GET with: 200 or 404, or a
\* server error
ExistenceStatus(exists) == {IF exists THEN 200 ELSE 404, 500}

CreateUrl(i) == <<"new?scope=", packages[i].scope, "&package=", packages[i].package>>

\* history: the registry answered an existence GET for package i with status
Answered(h, i, status) ==
  [h EXCEPT !.e404 = IF status = 404 THEN @ \cup {i} ELSE @]

\* api::get_scope in check_if_scope_and_package_exist
EnsureGetScope ==
  /\ pc = "ensure"
  /\ ens.step = "scope"
  /\ \/ /\ Return(Err(<<"ensure", "request failed">>))
        /\ ens' = EnsIdle
        /\ UNCHANGED hist
     \/ /\ \E status \in ExistenceStatus(packages[ens.i].scope \in registry.scopes) :
             /\ ens' = [ens EXCEPT !.step = "package", !.needs_scope = (status = 404),
                                   !.response = Some(status)]
             /\ hist' = Answered(hist, ens.i, status)
        /\ UNCHANGED <<pc, result>>
  /\ UNCHANGED <<const_vars, registry, auth, authorizations,
                 prepared_package_by_name, graph, futures, tasks>>

\* mutant: the loop over the packages is left after its first iteration
EnsureAdvanceFirstOnly(missing) ==
  /\ ens' = EnsIdle
  /\ IF missing # <<>>
     THEN Return(Err(<<"Following packages don't exist", missing>>))
     ELSE pc' = "auth" /\ UNCHANGED result

\* mutant: the loop over the packages fails at the first missing package
EnsureAdvanceFailFast(missing) ==
  IF missing # <<>>
  THEN /\ ens' = EnsIdle
       /\ Return(Err(<<"Following packages don't exist", missing>>))
  ELSE IF ens.i < N
  THEN /\ ens' = [i |-> ens.i + 1, step |-> "scope", needs_scope |-> FALSE,
                  missing |-> missing, response |-> None]
       /\ UNCHANGED <<pc, result>>
  ELSE /\ ens' = EnsIdle
       /\ pc' = "auth" /\ UNCHANGED result

\* the end of one iteration of a loop over the packages: the next package, or
\* the code after the loop
EnsureAdvance(missing) ==
  IF ens.i < N
  THEN /\ ens' = [i |-> ens.i + 1, step |-> "scope", needs_scope |-> FALSE,
                  missing |-> missing, response |-> None]
       /\ UNCHANGED <<pc, result>>
  ELSE /\ ens' = EnsIdle
       /\ IF missing # <<>>
          THEN Return(Err(<<"Following packages don't exist", missing>>))
          ELSE pc' = "auth" /\ UNCHANGED result

\* api::get_package in check_if_scope_and_package_exist, and what the caller's
\* loop does with the answer up to its next request
EnsureGetPackage ==
  /\ pc = "ensure"
  /\ ens.step = "package"
  /\ \/ /\ Return(Err(<<"ensure", "request failed">>))
        /\ ens' = EnsIdle
        /\ UNCHANGED hist
     \/ \E status \in ExistenceStatus(PkgName(ens.i) \in registry.packages) :
          LET needs_package == (status = 404)
              create == ens.needs_scope \/ needs_package
          IN /\ hist' = [Answered(hist, ens.i, status) EXCEPT !.checked = @ + 1]
             /\ IF ~env.stdin_is_terminal
                THEN EnsureAdvance(IF create THEN Append(ens.missing, CreateUrl(ens.i))
                                   ELSE ens.missing)
                ELSE IF create
                THEN /\ ens' = [ens EXCEPT !.step = "poll", !.response = Some(status)]
                     /\ UNCHANGED <<pc, result>>
                ELSE EnsureAdvance(ens.missing)
  /\ UNCHANGED <<const_vars, registry, auth, authorizations,
                 prepared_package_by_name, graph, futures, tasks>>

\* mutant: the interactive loop is left on any status but 404
EnsurePollUntilNot404 ==
  /\ pc = "ensure"
  /\ ens.step = "poll"
  /\ \/ /\ Return(Err(<<"ensure", "request failed">>))
        /\ ens' = EnsIdle
     \/ \E status \in ExistenceStatus(PkgName(ens.i) \in registry.packages) :
          IF status # 404
          THEN EnsureAdvance(ens.missing)
          ELSE /\ ens' = [ens EXCEPT !.response = Some(status)]
               /\ UNCHANGED <<pc, result>>
  /\ UNCHANGED <<const_vars, registry, auth, authorizations,
                 prepared_package_by_name, graph, futures, tasks, hist>>

\* the interactive loop: sleep 3 seconds, GET the package, until it answers 200
EnsurePoll ==
  /\ pc = "ensure"
  /\ ens.step = "poll"
  /\ \/ /\ Return(Err(<<"ensure", "request failed">>))
        /\ ens' = EnsIdle
     \/ \E status \in ExistenceStatus(PkgName(ens.i) \in registry.packages) :
          IF status = 200
          THEN EnsureAdvance(ens.missing)
          ELSE /\ ens' = [ens EXCEPT !.response = Some(status)]
               /\ UNCHANGED <<pc, result>>
  /\ UNCHANGED <<const_vars, registry, auth, authorizations,
                 prepared_package_by_name, graph, futures, tasks, hist>>

\* the user, sent to the management site, creates the scope and the package
CreateOnSite ==
  /\ pc = "ensure"
  /\ ens.step = "poll"
  /\ PkgName(ens.i) \notin registry.packages
  /\ registry' = [scopes |-> registry.scopes \cup {packages[ens.i].scope},
                  packages |-> registry.packages \cup {PkgName(ens.i)}]
  /\ UNCHANGED <<const_vars, pc, result, ens, auth,
                 authorizations, prepared_package_by_name, graph, futures, tasks, hist>>

(***************************************************************************)
(* get_auth_headers                                                        *)
(***************************************************************************)
AuthIdle == [step |-> "start", verifier |-> "", challenge |-> <<>>,
             exchange_token |-> "", slept |-> FALSE, exchange_sent |-> None,
             chunk |-> 1]

ExchangeTokens == {"x1", "x2"}

\* mutant: the error of get_auth_headers is dropped and the run goes on with
\* an empty authorization for every package
AuthReturnsIgnoringError(r, h) ==
  /\ auth' = AuthIdle
  /\ hist' = [h EXCEPT !.auth = IF r.ok THEN "ok" ELSE "err",
                       !.minted = IF r.ok THEN r.map ELSE @]
  /\ authorizations' = IF r.ok THEN r.map
                       ELSE InsertAll(EmptyMap, packages, Names, <<"Bearer", "">>)
  /\ pc' = "loop"
  /\ UNCHANGED result

\* get_auth_headers returns r to perform_publish (h: the history so far): Err
\* is propagated; on Ok the map is kept and
\* assert_eq!(prepared_package_by_name.len(), authorizations.len()) is evaluated
AuthReturns(r, h) ==
  /\ auth' = AuthIdle
  /\ IF ~r.ok
     THEN /\ Return(Err(r.err))
          /\ hist' = [h EXCEPT !.auth = "err"]
          /\ UNCHANGED authorizations
     ELSE /\ authorizations' = r.map
          /\ hist' = [h EXCEPT !.auth = "ok", !.minted = r.map]
          /\ IF Cardinality(prepared_package_by_name) = Cardinality(DOMAIN r.map)
             THEN pc' = "loop" /\ UNCHANGED result
             ELSE Return(Err(<<"panic", "assertion failed">>))

AuthOk(map) == [ok |-> TRUE, map |-> map, err |-> <<>>]

AuthErr(e) == [ok |-> FALSE, map |-> EmptyMap, err |-> e]

\* mutant: the static token is validated with a request, which can fail
AuthTokenViaRequest ==
  /\ pc = "auth"
  /\ auth_method = "Token"
  /\ LET sent == [hist EXCEPT !.auth_requested = TRUE]
     IN \/ AuthReturns(AuthErr(<<"Failed to validate token">>), sent)
        \/ AuthReturns(AuthOk(InsertAll(EmptyMap, packages, Names,
                                        Bearer(StaticToken))), sent)
  /\ UNCHANGED <<const_vars, registry, ens,
                 prepared_package_by_name, graph, futures, tasks>>

\* AuthMethod::Token: no request
AuthToken ==
  /\ pc = "auth"
  /\ auth_method = "Token"
  /\ AuthReturns(AuthOk(InsertAll(EmptyMap, packages, Names, Bearer(StaticToken))), hist)
  /\ UNCHANGED <<const_vars, registry, ens,
                 prepared_package_by_name, graph, futures, tasks>>

\* AuthMethod::Interactive: POST authorizations with the challenge
AuthInteractiveCreate ==
  /\ pc = "auth"
  /\ auth_method = "Interactive"
  /\ auth.step = "start"
  /\ \E verifier \in Verifiers :
       LET sent == [hist EXCEPT !.auth_requested = TRUE]
       IN \/ AuthReturns(AuthErr(<<"Failed to create interactive authorization">>), sent)
          \/ /\ \E xt \in ExchangeTokens :
                  /\ auth' = [auth EXCEPT !.step = "sleep", !.verifier = verifier,
                                          !.challenge = Challenge(verifier),
                                          !.exchange_token = xt]
                  /\ hist' = sent
             /\ UNCHANGED <<pc, result, authorizations>>
  /\ UNCHANGED <<const_vars, registry, ens,
                 prepared_package_by_name, graph, futures, tasks>>

\* the exchange loop: tokio::time::sleep(interval)
AuthInteractiveSleep ==
  /\ pc = "auth"
  /\ auth_method = "Interactive"
  /\ auth.step = "sleep"
  /\ auth' = [auth EXCEPT !.step = "exchange", !.slept = TRUE]
  /\ UNCHANGED <<const_vars, registry, pc, result, ens, authorizations,
                 prepared_package_by_name, graph, futures, tasks, hist>>

\* the exchange loop: POST authorizations/exchange, and the match on its
\* parsed response
AuthInteractiveExchange ==
  /\ pc = "auth"
  /\ auth_method = "Interactive"
  /\ auth.step = "exchange"
  /\ LET body == [exchangeToken |-> auth.exchange_token, verifier |-> auth.verifier,
                  slept |-> auth.slept]
     IN \/ AuthReturns(AuthErr(<<"Failed to exchange authorization">>), hist)
        \/ \E token \in TokenValues :
             AuthReturns(AuthOk(InsertAll(EmptyMap, packages, Names, Bearer(token))),
                         hist)
        \/ \E code \in {"authorizationPending", "otherError"} :
             IF code = "authorizationPending"
             THEN /\ auth' = [auth EXCEPT !.step = "sleep", !.slept = FALSE,
                                          !.exchange_sent = Some(body)]
                  /\ UNCHANGED <<pc, result, authorizations, hist>>
             ELSE AuthReturns(AuthErr(<<"Failed to exchange authorization", code>>),
                              hist)
  /\ UNCHANGED <<const_vars, registry, ens,
                 prepared_package_by_name, graph, futures, tasks>>

\* AuthMethod::Oidc: the token request of one chunk of 16 permissions, and the
\* inserts for chunked_packages.next()
AuthOidcRequest ==
  /\ pc = "auth"
  /\ auth_method = "Oidc"
  /\ auth.chunk <= NumChunks(N)
  /\ \/ AuthReturns(AuthErr(<<"Failed to get OIDC token">>),
                    [hist EXCEPT !.oidc_requests = @ + 1, !.auth_requested = TRUE])
     \/ \E value \in TokenValues :
          LET map == InsertAll(authorizations, packages, PackageChunk(N, auth.chunk),
                               GithubOidc(value))
              logged == [hist EXCEPT !.oidc_requests = @ + 1,
                                     !.auth_requested = TRUE,
                                     !.oidc_log = Append(@, value)]
          IN IF auth.chunk < NumChunks(N)
             THEN /\ auth' = [auth EXCEPT !.chunk = @ + 1]
                  /\ authorizations' = map
                  /\ hist' = logged
                  /\ UNCHANGED <<pc, result>>
             ELSE AuthReturns(AuthOk(map), logged)
  /\ UNCHANGED <<const_vars, registry, ens,
                 prepared_package_by_name, graph, futures, tasks>>

(***************************************************************************)
(* The PublishOrderGraph (publish_order.rs), as the specification of the   *)
(* publish-order graph describes it.                                       *)
(***************************************************************************)
BuildPublishOrderGraph(d) ==
  [in_degree |-> [n \in DOMAIN d |-> Cardinality(d[n])],
   pending |-> {},
   complete |-> {}]

\* mutant: a node is ready whatever its in_degree
ReadyIgnoringDegree(g) ==
  {n \in DOMAIN g.in_degree : n \notin g.pending /\ n \notin g.complete}

\* ready: in_degree == 0 and not pending and not finished
Ready(g) ==
  {n \in DOMAIN g.in_degree :
     g.in_degree[n] = 0 /\ n \notin g.pending /\ n \notin g.complete}

\* mutant: next() returns the ready nodes without marking them pending
GraphNextKeepsReady(g) == g

\* next(): marks the ready nodes pending (and returns them: Ready(g))
GraphNext(g) == [g EXCEPT !.pending = @ \cup Ready(g)]

\* finish_package(name): name is complete, its reverse dependents lose one
\* unpublished dependency
FinishPackage(g, name) ==
  [in_degree |-> [n \in DOMAIN g.in_degree |->
                    IF name \in deps[n]
                    THEN g.in_degree[n] - 1 ELSE g.in_degree[n]],
   pending |-> g.pending \ {name},
   complete |-> g.complete \cup {name}]

\* ensure_no_pending(): fails if a node is neither complete nor ready
EnsureNoPending(g) ==
  \A n \in DOMAIN g.in_degree : n \in g.complete \/ n \in Ready(g)

(***************************************************************************)
(* publish_package: one spawned task                                       *)
(***************************************************************************)
Statuses == {"pending", "processing", "success", "failure"}

TaskIds == {"id1", "id2"}

\* a PublishingTask as the registry sends it: error is whether the optional
\* error field is present
PublishingTasks == [id : TaskIds, status : Statuses, error : BOOLEAN]

IdleTask ==
  [pc |-> "idle", authorization |-> <<>>, status |-> "", id |-> "",
   ended |-> "none", upload_header |-> None, prov_header |-> None,
   meta |-> None, bundle |-> FALSE, err |-> <<>>]

NewTask(authorization) ==
  [pc |-> "post", authorization |-> authorization, status |-> "", id |-> "",
   ended |-> "none", upload_header |-> None, prov_header |-> None,
   meta |-> None, bundle |-> FALSE, err |-> <<>>]

\* mutant: provenance only on a CI host
EnableProvenanceCiOnly == env.is_gha /\ env.gha_oidc_token /\ ~env.no_provenance

\* enable_provenance
EnableProvenance ==
  \/ ~env.DISABLE_JSR_PROVENANCE
  \/ (env.is_gha /\ env.gha_oidc_token /\ ~env.no_provenance)

TaskFails(tk, e) == [tk EXCEPT !.pc = "err", !.err = e, !.status = "", !.id = ""]

\* mutant: the error of a task is looked at only if its status is "failure"
AfterPollingErrorOnFailure(tk, t) ==
  IF t.error /\ t.status = "failure"
  THEN TaskFails(tk, <<"Failed to publish", "task error">>)
  ELSE [tk EXCEPT !.pc = IF EnableProvenance THEN "meta" ELSE "ok",
                  !.ended = t.status, !.status = "", !.id = ""]

\* the code after the polling loop, up to the next request: the check of
\* task.error, "Successfully published", enable_provenance
AfterPolling(tk, t) ==
  IF t.error THEN TaskFails(tk, <<"Failed to publish", "task error">>)
  ELSE [tk EXCEPT !.pc = IF EnableProvenance THEN "meta" ELSE "ok",
                  !.ended = t.status, !.status = "", !.id = ""]

\* the task variable is set to t: the polling loop goes on, or is left
ReceiveTask(tk, t) ==
  IF t.status # "success" /\ t.status # "failure"
  THEN [tk EXCEPT !.pc = "poll", !.status = t.status, !.id = t.id]
  ELSE AfterPolling(tk, t)

\* the log of the requests of package p and of their answers, kept only in
\* the runs that trace them
Record(h, f, p, v) ==
  IF h.tracing THEN [h EXCEPT ![f] = [h[f] EXCEPT ![p] = v]] ELSE h

\* the log of the answers to a task ends when the task is joined
Forget(h, p) ==
  IF h.tracing
  THEN [h EXCEPT !.upload = [@ EXCEPT ![p] = [kind |-> "none"]],
                 !.round = [@ EXCEPT ![p] = <<>>],
                 !.answer = [@ EXCEPT ![p] = [kind |-> "none"]]]
  ELSE h

\* mutant: the poll asks for the id the upload was answered with
PollRoundFirstId(tk, h, p) ==
  <<<<"sleep", 2>>,
    <<"GET", "publish_status",
      IF h.upload[p].kind \in {"ok", "duplicate"} THEN h.upload[p].task.id
      ELSE tk.id>>>>

\* what one round of the polling loop does before it parses the response:
\* tokio::time::sleep(interval), then GET {api}publish_status/{task.id}
PollRound(tk, h, p) == <<<<"sleep", 2>>, <<"GET", "publish_status", tk.id>>>>

\* the tasks run while perform_publish awaits join_next
TaskRuns(p, at) ==
  /\ pc = "join"
  /\ p \in futures
  /\ tasks[p].pc = at

TaskStep(p, tk, h) ==
  /\ tasks' = [tasks EXCEPT ![p] = tk]
  /\ hist' = h
  /\ UNCHANGED <<const_vars, registry, pc, result, ens, auth,
                 authorizations, prepared_package_by_name, graph, futures>>

\* mutant: the duplicateVersionPublish shortcut does not return, the code
\* after the polling loop runs for the already published package too
UploadPostNoShortcut(p) ==
  /\ TaskRuns(p, "post")
  /\ LET sent == [tasks[p] EXCEPT !.upload_header = Some(tasks[p].authorization)]
         h == [hist EXCEPT !.posted = @ \cup {p}]
     IN \/ TaskStep(p, TaskFails(sent, <<"request failed">>), h)
        \/ \E t \in PublishingTasks : TaskStep(p, ReceiveTask(sent, t), h)
        \/ \E t \in PublishingTasks :
             IF t.status = "success"
             THEN TaskStep(p, [sent EXCEPT
                                 !.pc = IF EnableProvenance THEN "meta" ELSE "ok",
                                 !.ended = "duplicate success"], h)
             ELSE TaskStep(p, ReceiveTask(sent, t), h)
        \/ TaskStep(p, [sent EXCEPT !.pc = "panicked"], h)
        \/ TaskStep(p, TaskFails(sent, <<"Failed to publish", "api error">>), h)

\* mutant: an upload answered with duplicateVersionPublish and a task that
\* has not succeeded is posted again
UploadPostAgainOnDuplicate(p) ==
  /\ TaskRuns(p, "post")
  /\ LET sent == [tasks[p] EXCEPT !.upload_header = Some(tasks[p].authorization)]
         g == Record([hist EXCEPT !.posted = @ \cup {p}],
                     "posts", p, hist.posts[p] + 1)
         h(u) == Record(g, "upload", p, u)
     IN \/ TaskStep(p, TaskFails(sent, <<"request failed">>), h([kind |-> "failed"]))
        \/ \E t \in PublishingTasks :
             TaskStep(p, ReceiveTask(sent, t), h([kind |-> "ok", task |-> t]))
        \/ \E t \in PublishingTasks :
             IF t.status = "success"
             THEN TaskStep(p, [sent EXCEPT !.pc = "ok", !.ended = "duplicate success"],
                           h([kind |-> "duplicate", task |-> t]))
             ELSE TaskStep(p, sent, h([kind |-> "duplicate", task |-> t]))
        \/ TaskStep(p, [sent EXCEPT !.pc = "panicked"], h([kind |-> "panic"]))
        \/ TaskStep(p, TaskFails(sent, <<"Failed to publish", "api error">>),
                    h([kind |-> "api error"]))

\* the upload POST and the match on its parsed response
UploadPost(p) ==
  /\ TaskRuns(p, "post")
  /\ LET sent == [tasks[p] EXCEPT !.upload_header = Some(tasks[p].authorization)]
         g == Record([hist EXCEPT !.posted = @ \cup {p}],
                     "posts", p, hist.posts[p] + 1)
         h(u) == Record(g, "upload", p, u)
     IN \/ TaskStep(p, TaskFails(sent, <<"request failed">>), h([kind |-> "failed"]))
        \/ \E t \in PublishingTasks :
             TaskStep(p, ReceiveTask(sent, t), h([kind |-> "ok", task |-> t]))
        \/ \E t \in PublishingTasks :  \* error code duplicateVersionPublish
             IF t.status = "success"
             THEN TaskStep(p, [sent EXCEPT !.pc = "ok", !.ended = "duplicate success"],
                           h([kind |-> "duplicate", task |-> t]))
             ELSE TaskStep(p, ReceiveTask(sent, t),
                           h([kind |-> "duplicate", task |-> t]))
        \/ \* duplicateVersionPublish without a task in its data: unwrap panics
           TaskStep(p, [sent EXCEPT !.pc = "panicked"], h([kind |-> "panic"]))
        \/ TaskStep(p, TaskFails(sent, <<"Failed to publish", "api error">>),
                    h([kind |-> "api error"]))

\* the failure of a poll: the request fails, or the response is an error
PollFailures == {<<"Failed to get publishing status">>}

\* mutant: the polling loop gives up after a deadline
PollStatusWithDeadline(p, answers, failures) ==
  /\ TaskRuns(p, "poll")
  /\ LET g == Record(hist, "round", p, PollRound(tasks[p], hist, p))
         h(a) == Record(g, "answer", p, a)
     IN \/ \E e \in failures :
             TaskStep(p, TaskFails(tasks[p], e), h([kind |-> "failed"]))
        \/ \E t \in answers :
             TaskStep(p, ReceiveTask(tasks[p], t), h([kind |-> "task", task |-> t]))
        \/ TaskStep(p, TaskFails(tasks[p], <<"timed out">>), hist)

\* one round of the polling loop: sleep 2 seconds, GET publish_status/{task.id},
\* on a registry whose polls fail with one of failures or are answered with
\* one of answers
PollStatusWith(p, answers, failures) ==
  /\ TaskRuns(p, "poll")
  /\ LET g == Record(hist, "round", p, PollRound(tasks[p], hist, p))
         h(a) == Record(g, "answer", p, a)
     IN \/ \E e \in failures :
             TaskStep(p, TaskFails(tasks[p], e), h([kind |-> "failed"]))
        \/ \E t \in answers :
             TaskStep(p, ReceiveTask(tasks[p], t), h([kind |-> "task", task |-> t]))

PollStatus(p) == PollStatusWith(p, PublishingTasks, PollFailures)

\* the polls of a registry on which no task ever ends and no poll fails
PollStuck(p) ==
  PollStatusWith(p, {t \in PublishingTasks : t.status \in {"pending", "processing"}},
                 {})

\* the metas the registry answers with in a run
RunMetas ==
  {SynthesizedMeta(RunContent),
   [json |-> FALSE],
   [json |-> TRUE, manifest |-> Some(EmptyMap), exports |-> Some(EmptyMap)],
   [json |-> TRUE,
    manifest |-> Some([p \in {"mod.ts"} |-> [checksum |-> None]]),
    exports |-> Some(EmptyMap)],
   [json |-> TRUE,
    manifest |-> Some([p \in {"mod.ts"} |-> [checksum |-> Some("abc123")]]),
    exports |-> None],
   [json |-> TRUE,
    manifest |-> Some([p \in {"mod.ts"} |-> [checksum |-> Some("lol123")]]),
    exports |-> Some(EmptyMap)]}

\* mutant: the manifest is never verified
VerificationNever == FALSE

\* whether publish_package calls verify_version_manifest
VerificationEnabled == ~env.DISABLE_JSR_MANIFEST_VERIFICATION_FOR_TESTING

\* GET {version}_meta.json, then verify_version_manifest unless disabled
FetchMeta(p) ==
  /\ TaskRuns(p, "meta")
  /\ \/ TaskStep(p, TaskFails(tasks[p], <<"request failed">>), hist)
     \/ \E meta \in RunMetas :
          \E fo \in FileOrders(meta), eo \in ExportOrders(meta) :
            LET r == VerifyVersionManifest(meta, packages[p].content, fo, eo)
                got == [tasks[p] EXCEPT !.meta = Some(meta)]
            IN IF VerificationEnabled /\ ~r.ok
               THEN TaskStep(p, TaskFails(got, r.err), hist)
               ELSE TaskStep(p, [got EXCEPT !.pc = "bundle"], hist)

\* provenance::generate_provenance(subject)
GenerateProvenance(p) ==
  /\ TaskRuns(p, "bundle")
  /\ \/ TaskStep(p, TaskFails(tasks[p], <<"generate_provenance failed">>), hist)
     \/ TaskStep(p, [tasks[p] EXCEPT !.pc = "prov_post", !.bundle = TRUE], hist)

\* the provenance POST: send().await? fails the task if the request fails,
\* the response is not looked at
PostProvenance(p) ==
  /\ TaskRuns(p, "prov_post")
  /\ LET sent == [tasks[p] EXCEPT !.prov_header = Some(tasks[p].authorization)]
     IN \/ TaskStep(p, TaskFails(sent, <<"request failed">>), hist)
        \/ TaskStep(p, [sent EXCEPT !.pc = "ok"], hist)

(***************************************************************************)
(* perform_publish: the scheduling loop                                    *)
(***************************************************************************)
\* mutant: every task gets the authorization of the first key of the map
AuthorizationOfAnyKey(name) ==
  authorizations[CHOOSE k \in DOMAIN authorizations : TRUE]

\* authorizations.remove(&(scope, package, version)).unwrap()
AuthorizationOf(name) == authorizations[AuthKey(packages[name])]

\* the removals of a batch succeed (no unwrap of None)
BatchRemovable(batch) ==
  /\ batch \subseteq prepared_package_by_name
  /\ \A name \in batch : AuthKey(packages[name]) \in DOMAIN authorizations

\* mutant: finish_package is called for each name of the batch when its task
\* is spawned, not when it is joined
LoopNextFinishAtSpawn ==
  /\ pc = "loop"
  /\ LET batch == Ready(graph)
     IN /\ graph' = [in_degree |-> [n \in Names |->
                        graph.in_degree[n] - Cardinality(deps[n] \cap batch)],
                      pending |-> graph.pending \ batch,
                      complete |-> graph.complete \cup batch]
        /\ hist' = [hist EXCEPT !.returned =
                       [n \in Names |-> IF n \in batch THEN @[n] + 1 ELSE @[n]]]
        /\ IF BatchRemovable(batch)
           THEN /\ prepared_package_by_name' = prepared_package_by_name \ batch
                /\ authorizations' =
                     [k \in DOMAIN authorizations \
                              {AuthKey(packages[n]) : n \in batch} |->
                        authorizations[k]]
                /\ tasks' = [n \in Names |->
                               IF n \in batch THEN NewTask(AuthorizationOf(n))
                               ELSE tasks[n]]
                /\ futures' = futures \cup batch
                /\ pc' = "join"
                /\ UNCHANGED result
           ELSE /\ Return(Err(<<"panic", "unwrap of None">>))
                /\ UNCHANGED <<prepared_package_by_name, authorizations, tasks, futures>>
  /\ UNCHANGED <<const_vars, registry, ens, auth>>

\* the top of the loop: publish_order_graph.next(), and one spawned task for
\* each name of the batch
LoopNext ==
  /\ pc = "loop"
  /\ LET batch == Ready(graph)
     IN /\ graph' = GraphNext(graph)
        /\ hist' = [hist EXCEPT !.returned =
                       [n \in Names |-> IF n \in batch THEN @[n] + 1 ELSE @[n]]]
        /\ IF BatchRemovable(batch)
           THEN /\ prepared_package_by_name' = prepared_package_by_name \ batch
                /\ authorizations' =
                     [k \in DOMAIN authorizations \
                              {AuthKey(packages[n]) : n \in batch} |->
                        authorizations[k]]
                /\ tasks' = [n \in Names |->
                               IF n \in batch THEN NewTask(AuthorizationOf(n))
                               ELSE tasks[n]]
                /\ futures' = futures \cup batch
                /\ pc' = "join"
                /\ UNCHANGED result
           ELSE /\ Return(Err(<<"panic", "unwrap of None">>))
                /\ UNCHANGED <<prepared_package_by_name, authorizations, tasks, futures>>
  /\ UNCHANGED <<const_vars, registry, ens, auth>>

\* mutant: the loop is left with Ok as soon as next() has nothing to start
JoinDrainedUnchecked ==
  /\ pc = "join"
  /\ Return(Ok)
  /\ UNCHANGED <<const_vars, registry, ens, auth, authorizations,
                 prepared_package_by_name, graph, futures, tasks, hist>>

\* join_next() returns None: ensure_no_pending(), and the loop is left
JoinDrained ==
  /\ pc = "join"
  /\ futures = {}
  /\ IF EnsureNoPending(graph)
     THEN Return(Ok)
     ELSE Return(Err(<<"circular package dependency">>))
  /\ UNCHANGED <<const_vars, registry, ens, auth, authorizations,
                 prepared_package_by_name, graph, futures, tasks, hist>>

\* mutant: when a task is joined, finish_package is called for every package
\* of its batch that is still in flight
JoinOkFinishesBatch(p) ==
  /\ pc = "join"
  /\ p \in futures
  /\ tasks[p].pc = "ok"
  /\ futures' = futures \ {p}
  /\ graph' = [in_degree |-> [n \in Names |->
                   graph.in_degree[n] - Cardinality(deps[n] \cap graph.pending)],
               pending |-> {},
               complete |-> graph.complete \cup graph.pending]
  /\ hist' = [hist EXCEPT !.finished = @ \cup graph.pending]
  /\ tasks' = [tasks EXCEPT ![p] = [IdleTask EXCEPT !.pc = "joined"]]
  /\ pc' = "loop"
  /\ UNCHANGED <<const_vars, registry, result, ens, auth,
                 authorizations, prepared_package_by_name>>

\* mutant: a package is reported complete as soon as it is published, while
\* the provenance steps of its task are still to come
JoinOkBeforeProvenance(p) ==
  /\ pc = "join"
  /\ p \in futures
  /\ tasks[p].pc \in {"ok", "meta", "bundle", "prov_post"}
  /\ futures' = futures \ {p}
  /\ graph' = FinishPackage(graph, p)
  /\ hist' = Forget([hist EXCEPT !.finished = @ \cup {p}], p)
  /\ tasks' = [tasks EXCEPT ![p] = [IdleTask EXCEPT !.pc = "joined"]]
  /\ pc' = "loop"
  /\ UNCHANGED <<const_vars, registry, result, ens, auth,
                 authorizations, prepared_package_by_name>>

\* mutant: after finish_package the loop awaits join_next again without
\* calling next()
JoinOkWithoutNext(p) ==
  /\ pc = "join"
  /\ p \in futures
  /\ tasks[p].pc = "ok"
  /\ futures' = futures \ {p}
  /\ graph' = FinishPackage(graph, p)
  /\ hist' = Forget([hist EXCEPT !.finished = @ \cup {p}], p)
  /\ tasks' = [tasks EXCEPT ![p] = [IdleTask EXCEPT !.pc = "joined"]]
  /\ pc' = "join"
  /\ UNCHANGED <<const_vars, registry, result, ens, auth,
                 authorizations, prepared_package_by_name>>

\* join_next() returns the Ok(name) of a task: finish_package(name)
JoinOk(p) ==
  /\ pc = "join"
  /\ p \in futures
  /\ tasks[p].pc = "ok"
  /\ futures' = futures \ {p}
  /\ graph' = FinishPackage(graph, p)
  /\ hist' = Forget([hist EXCEPT !.finished = @ \cup {p}], p)
  /\ tasks' = [tasks EXCEPT ![p] = [IdleTask EXCEPT !.pc = "joined"]]
  /\ pc' = "loop"
  /\ UNCHANGED <<const_vars, registry, result, ens, auth,
                 authorizations, prepared_package_by_name>>

\* mutant: the error of a task is dropped and its package reported finished
JoinErrIgnored(p) ==
  /\ pc = "join"
  /\ p \in futures
  /\ tasks[p].pc \in {"err", "panicked"}
  /\ futures' = futures \ {p}
  /\ graph' = FinishPackage(graph, p)
  /\ hist' = [hist EXCEPT !.finished = @ \cup {p}]
  /\ pc' = "loop"
  /\ UNCHANGED <<const_vars, registry, result, ens, auth,
                 authorizations, prepared_package_by_name, tasks>>

\* mutant: before the error is returned the uploads of the tasks still in
\* flight are cancelled and the packages already published are withdrawn
JoinErrCancels(p) ==
  /\ pc = "join"
  /\ p \in futures
  /\ tasks[p].pc \in {"err", "panicked"}
  /\ futures' = {}
  /\ Return(Err(<<"Failed to publish", p, tasks[p].err>>))
  /\ tasks' = [n \in Names |-> IF n \in futures \ {p} THEN IdleTask ELSE tasks[n]]
  /\ hist' = [hist EXCEPT !.posted = {p}, !.finished = {}]
  /\ UNCHANGED <<const_vars, registry, ens, auth, authorizations,
                 prepared_package_by_name, graph>>

\* join_next() returns the error or the panic of a task: result?? returns it
JoinErr(p) ==
  /\ pc = "join"
  /\ p \in futures
  /\ tasks[p].pc \in {"err", "panicked"}
  /\ futures' = futures \ {p}
  /\ Return(Err(<<"Failed to publish", p, tasks[p].err>>))
  /\ UNCHANGED <<const_vars, registry, ens, auth, authorizations,
                 prepared_package_by_name, graph, tasks, hist>>

(***************************************************************************)
(* Initial states and specifications                                       *)
(***************************************************************************)
\* order graphs on n packages: build_publish_order_graph rejects cycles
Independent(n) == [i \in 1..n |-> {}]

Chain(n) == [i \in 1..n |-> IF i = 1 THEN {} ELSE {i - 1}]

FanIn(n) == [i \in 1..n |-> IF i = n THEN 1..(n - 1) ELSE {}]

FanOut(n) == [i \in 1..n |-> IF i = 1 THEN {} ELSE {1}]

Shapes(n) == {Independent(n), Chain(n), FanIn(n), FanOut(n)}

\* the largest workspace whose packages may all be uploaded at once
MaxWidth == 3

\* how many packages more than one OIDC chunk the long workspace has
MaxExtra == 1

\* the largest package list handed to the authorizer alone
MaxAuthPackages == 33

Envs ==
  [stdin_is_terminal : BOOLEAN,
   DISABLE_JSR_PROVENANCE : BOOLEAN,
   DISABLE_JSR_MANIFEST_VERIFICATION_FOR_TESTING : BOOLEAN,
   is_gha : BOOLEAN,
   gha_oidc_token : BOOLEAN,
   no_provenance : BOOLEAN]

\* no terminal, no CI; provenance on (with verification) or switched off
CoreEnvs ==
  {e \in Envs : /\ ~e.stdin_is_terminal
                /\ ~e.DISABLE_JSR_MANIFEST_VERIFICATION_FOR_TESTING
                /\ ~e.is_gha /\ ~e.gha_oidc_token /\ ~e.no_provenance}

\* provenance switched off, with or without a terminal
NoProvenanceEnvs ==
  {e \in Envs : /\ e.DISABLE_JSR_PROVENANCE
                /\ ~e.DISABLE_JSR_MANIFEST_VERIFICATION_FOR_TESTING
                /\ ~e.is_gha /\ ~e.gha_oidc_token /\ ~e.no_provenance}

AllExist(n) ==
  [scopes |-> {PreparedPackage(i).scope : i \in 1..n},
   packages |-> {<<PreparedPackage(i).scope, PreparedPackage(i).package>> : i \in 1..n}]

\* registries on which the last package, or its scope too, is missing
Registries(n) ==
  {AllExist(n),
   [AllExist(n) EXCEPT !.packages = @ \ {<<PreparedPackage(n).scope,
                                            PreparedPackage(n).package>>}],
   [scopes |-> AllExist(n).scopes \ {PreparedPackage(n).scope},
    packages |-> {k \in AllExist(n).packages : k[1] # PreparedPackage(n).scope}]}

HistInit(n) ==
  [auth |-> "none", minted |-> EmptyMap, oidc_log |-> <<>>, oidc_requests |-> 0,
   returned |-> [i \in 1..n |-> 0], finished |-> {}, posted |-> {},
   e404 |-> {}, checked |-> 0, auth_requested |-> FALSE, listed |-> {},
   tracing |-> FALSE,
   posts |-> [i \in 1..n |-> 0],
   upload |-> [i \in 1..n |-> [kind |-> "none"]],
   round |-> [i \in 1..n |-> <<>>],
   answer |-> [i \in 1..n |-> [kind |-> "none"]]]

\* what publish is called with and finds before it calls perform_publish:
\* whether get_auth_method, the preparation and the diagnostics pass
PublishFlagSets ==
  [dry_run : BOOLEAN, auth_method_ok : BOOLEAN, prepare_ok : BOOLEAN,
   diagnostics_ok : BOOLEAN]

\* the flags of a run that reaches perform_publish
RealRun ==
  [dry_run |-> FALSE, auth_method_ok |-> TRUE, prepare_ok |-> TRUE,
   diagnostics_ok |-> TRUE]

\* the state at the call of publish, before it has prepared anything
StartRun(n, d, method, e, reg, at) ==
  /\ packages = [i \in 1..n |-> PreparedPackage(i)]
  /\ deps = d
  /\ auth_method = method
  /\ env = e
  /\ registry = reg
  /\ pc = at
  /\ result = None
  /\ ens = EnsIdle
  /\ auth = AuthIdle
  /\ authorizations = EmptyMap
  /\ prepared_package_by_name = 1..n
  /\ graph = BuildPublishOrderGraph(d)
  /\ futures = {}
  /\ tasks = [i \in 1..n |-> IdleTask]
  /\ hist = HistInit(n)

\* perform_publish is called with n packages and the order graph d
Start(n, d, method, e, reg, at) ==
  /\ publish_flags = RealRun
  /\ StartRun(n, d, method, e, reg, at)

NoVerifierCall ==
  /\ v_meta = [json |-> FALSE]
  /\ v_package = RunContent
  /\ v_result = None

Init ==
  /\ NoVerifierCall
  /\ \/ \E e \in Envs, method \in AuthMethods, reg \in Registries(1) :
          Start(1, Independent(1), method, e, reg, "ensure")
     \/ \E d \in Shapes(2), e \in CoreEnvs, method \in AuthMethods :
          Start(2, d, method, e, AllExist(2), "ensure")
     \/ \E n \in 3..MaxWidth :
          \E d \in Shapes(n), e \in {e \in CoreEnvs : e.DISABLE_JSR_PROVENANCE} :
            Start(n, d, "Token", e, AllExist(n), "ensure")
     \/ \E n \in (ChunkSize + 1)..(ChunkSize + MaxExtra) :
          \E e \in CoreEnvs :
            Start(n, Chain(n), "Oidc", e, AllExist(n), "ensure")
     \/ \E reg \in SUBSET AllExist(2).packages, e \in NoProvenanceEnvs :
          Start(2, Chain(2), "Token", e,
                [scopes |-> {k[1] : k \in reg}, packages |-> reg], "ensure")

Next ==
  \/ EnsureGetScope
  \/ EnsureGetPackage
  \/ EnsurePoll
  \/ CreateOnSite
  \/ AuthToken
  \/ AuthInteractiveCreate
  \/ AuthInteractiveSleep
  \/ AuthInteractiveExchange
  \/ AuthOidcRequest
  \/ LoopNext
  \/ JoinDrained
  \/ \E p \in Names : JoinOk(p)
  \/ \E p \in Names : JoinErr(p)
  \/ \E p \in Names : UploadPost(p)
  \/ \E p \in Names : PollStatus(p)
  \/ \E p \in Names : FetchMeta(p)
  \/ \E p \in Names : GenerateProvenance(p)
  \/ \E p \in Names : PostProvenance(p)

Spec == Init /\ [][Next]_vars

\* get_auth_headers alone, on lists of up to MaxAuthPackages packages
InitAuth ==
  /\ NoVerifierCall
  /\ \E n \in 1..MaxAuthPackages, method \in AuthMethods :
       \E e \in {e \in CoreEnvs : ~e.DISABLE_JSR_PROVENANCE} :
         Start(n, Independent(n), method, e, AllExist(n), "auth")

NextAuth ==
  \/ AuthToken
  \/ AuthInteractiveCreate
  \/ AuthInteractiveSleep
  \/ AuthInteractiveExchange
  \/ AuthOidcRequest

SpecAuth == InitAuth /\ [][NextAuth]_vars

\* a call of verify_version_manifest on the inputs drawn by the initial state
Verify ==
  /\ v_result = None
  /\ \E fo \in FileOrders(v_meta), eo \in ExportOrders(v_meta) :
       v_result' = Some(VerifyVersionManifest(v_meta, v_package, fo, eo))
  /\ UNCHANGED <<v_meta, v_package>>

\* verify_version_manifest alone, on every manifest and package of the bounds
InitVerify ==
  /\ v_package \in PackageContent
  /\ v_meta \in MetaBytes \cup {SynthesizedMeta(v_package)}
  /\ v_result = None
  /\ \E e \in {e \in CoreEnvs : ~e.DISABLE_JSR_PROVENANCE} :
       Start(1, Independent(1), "Token", e, AllExist(1), "idle")

NextVerify == Verify /\ UNCHANGED run_vars

SpecVerify == InitVerify /\ [][NextVerify]_vars

\* mutant: the dry-run branch comes before print_and_error
PublishDryRunFirst ==
  /\ pc = "publish"
  /\ IF ~publish_flags.auth_method_ok
     THEN Return(Err(<<"get_auth_method">>)) /\ UNCHANGED hist
     ELSE IF ~publish_flags.prepare_ok
     THEN Return(Err(<<"prepare_packages_for_publishing">>)) /\ UNCHANGED hist
     ELSE IF publish_flags.dry_run
     THEN Return(Ok) /\ hist' = [hist EXCEPT !.listed = Names]
     ELSE IF ~publish_flags.diagnostics_ok
     THEN Return(Err(<<"diagnostics">>)) /\ UNCHANGED hist
     ELSE IF N = 0
     THEN Return(Err(<<"No packages to publish">>)) /\ UNCHANGED hist
     ELSE pc' = "ensure" /\ UNCHANGED <<result, hist>>
  /\ UNCHANGED <<const_vars, registry, ens, auth, authorizations,
                 prepared_package_by_name, graph, futures, tasks>>

\* publish, up to its call of perform_publish (whose result it returns)
Publish ==
  /\ pc = "publish"
  /\ IF ~publish_flags.auth_method_ok
     THEN Return(Err(<<"get_auth_method">>)) /\ UNCHANGED hist
     ELSE IF ~publish_flags.prepare_ok
     THEN Return(Err(<<"prepare_packages_for_publishing">>)) /\ UNCHANGED hist
     ELSE IF ~publish_flags.diagnostics_ok
     THEN Return(Err(<<"diagnostics">>)) /\ UNCHANGED hist
     ELSE IF N = 0
     THEN Return(Err(<<"No packages to publish">>)) /\ UNCHANGED hist
     ELSE IF publish_flags.dry_run
     THEN Return(Ok) /\ hist' = [hist EXCEPT !.listed = Names]
     ELSE pc' = "ensure" /\ UNCHANGED <<result, hist>>
  /\ UNCHANGED <<const_vars, registry, ens, auth, authorizations,
                 prepared_package_by_name, graph, futures, tasks>>

\* publish is called on a workspace of no, one or two packages
InitPublish ==
  /\ NoVerifierCall
  /\ publish_flags \in PublishFlagSets
  /\ \/ \E method \in AuthMethods, e \in CoreEnvs :
          StartRun(0, Independent(0), method, e, AllExist(0), "publish")
     \/ \E method \in AuthMethods, e \in CoreEnvs \cup NoProvenanceEnvs,
           reg \in Registries(1) :
          StartRun(1, Independent(1), method, e, reg, "publish")
     \/ \E d \in Shapes(2), e \in CoreEnvs :
          StartRun(2, d, "Token", e, AllExist(2), "publish")

NextPublish ==
  \/ Publish
  \/ Next

SpecPublish == InitPublish /\ [][NextPublish]_vars

\* the longest chain of packages whose requests are logged
MaxLogged == 2

\* perform_publish after the existence checks, with a static token, on a
\* chain of packages
StartUpload(n, d, e, tracing) ==
  /\ packages = [i \in 1..n |-> PreparedPackage(i)]
  /\ deps = d
  /\ auth_method = "Token"
  /\ env = e
  /\ publish_flags = RealRun
  /\ registry = AllExist(n)
  /\ pc = "auth"
  /\ result = None
  /\ ens = EnsIdle
  /\ auth = AuthIdle
  /\ authorizations = EmptyMap
  /\ prepared_package_by_name = 1..n
  /\ graph = BuildPublishOrderGraph(d)
  /\ futures = {}
  /\ tasks = [i \in 1..n |-> IdleTask]
  /\ hist = [HistInit(n) EXCEPT !.tracing = tracing]

\* the registry never ends a task: its polls are answered with a status that
\* is not terminal
InitStuck ==
  /\ NoVerifierCall
  /\ \E n \in 1..MaxLogged, e \in CoreEnvs : StartUpload(n, Chain(n), e, TRUE)

NextStuck ==
  \/ AuthToken
  \/ LoopNext
  \/ JoinDrained
  \/ \E p \in Names : JoinOk(p)
  \/ \E p \in Names : JoinErr(p)
  \/ \E p \in Names : UploadPost(p)
  \/ \E p \in Names : PollStuck(p)
  \/ \E p \in Names : FetchMeta(p)
  \/ \E p \in Names : GenerateProvenance(p)
  \/ \E p \in Names : PostProvenance(p)

SpecStuck == InitStuck /\ [][NextStuck]_vars

\* the uploads with the requests of each package and their answers logged
InitPoll ==
  /\ NoVerifierCall
  /\ \E n \in 1..MaxLogged, e \in CoreEnvs : StartUpload(n, Chain(n), e, TRUE)

NextPoll ==
  \/ AuthToken
  \/ LoopNext
  \/ JoinDrained
  \/ \E p \in Names : JoinOk(p)
  \/ \E p \in Names : JoinErr(p)
  \/ \E p \in Names : UploadPost(p)
  \/ \E p \in Names : PollStatus(p)
  \/ \E p \in Names : FetchMeta(p)
  \/ \E p \in Names : GenerateProvenance(p)
  \/ \E p \in Names : PostProvenance(p)

SpecPoll == InitPoll /\ [][NextPoll]_vars

\* the largest workspace of the runs checked for termination
MaxLive == 2

\* perform_publish on one package with every authentication method, with and
\* without a terminal, and on larger workspaces of every shape with a token
InitLive ==
  /\ NoVerifierCall
  /\ \/ \E e \in NoProvenanceEnvs \cup CoreEnvs, method \in AuthMethods,
           reg \in Registries(1) :
          Start(1, Independent(1), method, e, reg, "ensure")
     \/ \E n \in 2..MaxLive :
          \E d \in Shapes(n), e \in {e \in CoreEnvs : e.DISABLE_JSR_PROVENANCE} :
            Start(n, d, "Token", e, AllExist(n), "ensure")

\* the runtime runs every future that can make a step, and every request is
\* answered; nothing makes the user create a package on the site
Fairness ==
  /\ WF_vars(EnsureGetScope)
  /\ WF_vars(EnsureGetPackage)
  /\ WF_vars(EnsurePoll)
  /\ WF_vars(AuthToken)
  /\ WF_vars(AuthInteractiveCreate)
  /\ WF_vars(AuthInteractiveSleep)
  /\ WF_vars(AuthInteractiveExchange)
  /\ WF_vars(AuthOidcRequest)
  /\ WF_vars(LoopNext)
  /\ WF_vars(JoinDrained)
  /\ \A p \in 1..MaxLive :
       /\ WF_vars(p \in Names /\ JoinOk(p))
       /\ WF_vars(p \in Names /\ JoinErr(p))
       /\ WF_vars(p \in Names /\ UploadPost(p))
       /\ WF_vars(p \in Names /\ PollStatus(p))
       /\ WF_vars(p \in Names /\ FetchMeta(p))
       /\ WF_vars(p \in Names /\ GenerateProvenance(p))
       /\ WF_vars(p \in Names /\ PostProvenance(p))

SpecLive == InitLive /\ [][Next]_vars /\ Fairness

(***************************************************************************)
(* Properties                                                              *)
(***************************************************************************)
\* the key (scope, name, version) of the package at position i
KeyAt(i) == <<packages[i].scope, packages[i].package, packages[i].version>>

\* C1: for every edge a -> b of the order graph, the upload POST of a is not
\* sent before the task of b has returned Ok and finish_package(b) was called
C1_UploadAfterDependencies ==
  \A a \in Names :
    a \in hist.posted =>
      \A b \in deps[a] : b \in hist.finished /\ tasks[b].pc = "joined"

\* C1 witness: the upload POST of a package with two dependencies was sent
C1_Witness ==
  \E a \in Names : a \in hist.posted /\ Cardinality(deps[a]) >= 2

\* C2: an upload POST is sent only after get_auth_headers returned the
\* authorization of every package; if it failed, no upload POST is ever sent
C2_AuthorizationBeforeUpload ==
  /\ hist.posted # {} =>
       /\ hist.auth = "ok"
       /\ \A i \in Names : KeyAt(i) \in DOMAIN hist.minted
  /\ hist.auth = "err" => hist.posted = {} /\ futures = {}

\* C2 witness: the first upload POST of a workspace of several packages was
\* sent, after an authorization that took requests
C2_Witness ==
  /\ N >= 2
  /\ Cardinality(hist.posted) = 1
  /\ auth_method # "Token"

\* C3: a name is returned by next() only after every package it depends on was
\* passed to finish_package, and it is returned once: the sequence of returned
\* names is a topological order of the graph
C3_NextIsTopological ==
  \A n \in Names :
    /\ hist.returned[n] <= 1
    /\ hist.returned[n] > 0 => deps[n] \subseteq hist.finished

\* C3 witness: next() returned a package that depends on two others
C3_Witness ==
  \E n \in Names : hist.returned[n] > 0 /\ Cardinality(deps[n]) >= 2

\* C4: a package is passed to finish_package only if its upload ended with a
\* task of status success, or with the duplicateVersionPublish shortcut
C4_FinishOnlyAfterSuccess ==
  [][\A p \in Names :
       (p \in hist.finished' /\ p \notin hist.finished) =>
         tasks[p].ended \in {"success", "duplicate success"}]_vars

\* C5: when get_auth_headers returns Ok, the map has exactly one entry for the
\* key of every package, and the assertion of perform_publish holds
C5_AuthorizationsCoverPackages ==
  hist.auth = "ok" =>
    /\ DOMAIN hist.minted = {KeyAt(i) : i \in Names}
    /\ Cardinality(DOMAIN hist.minted) = N
    /\ pc = "loop"
    /\ result = None

\* C5 witness: the OIDC flow returned the map of more packages than one chunk
C5_Witness ==
  /\ hist.auth = "ok"
  /\ auth_method = "Oidc"
  /\ N > ChunkSize

\* C6: the Authorization header of a package's upload POST and provenance POST
\* is the value the authorizer mapped to the package's key
C6_OwnAuthorizationSent ==
  \A p \in Names :
    /\ tasks[p].upload_header.some =>
         /\ KeyAt(p) \in DOMAIN hist.minted
         /\ tasks[p].upload_header.v = hist.minted[KeyAt(p)]
    /\ tasks[p].prov_header.some =>
         /\ KeyAt(p) \in DOMAIN hist.minted
         /\ tasks[p].prov_header.v = hist.minted[KeyAt(p)]

\* C6 witness: a package of the second OIDC chunk, whose token differs from
\* the first chunk's, sent its provenance POST
C6_Witness ==
  \E p \in Names :
    /\ p > ChunkSize
    /\ tasks[p].prov_header.some
    /\ hist.minted[KeyAt(p)] # hist.minted[KeyAt(1)]

\* C7: with OIDC and n packages the authorizer sends ceil(n/16) requests, and
\* the package at position i (from 0) gets the value of request floor(i/16)
C7_OidcChunks ==
  (auth_method = "Oidc" /\ hist.auth = "ok") =>
    /\ 16 * (hist.oidc_requests - 1) < N
    /\ N <= 16 * hist.oidc_requests
    /\ Len(hist.oidc_log) = hist.oidc_requests
    /\ \A i \in 0..(N - 1) :
         /\ KeyAt(i + 1) \in DOMAIN hist.minted
         /\ (i \div 16) + 1 \in DOMAIN hist.oidc_log
         /\ hist.minted[KeyAt(i + 1)] = <<"githuboidc", hist.oidc_log[(i \div 16) + 1]>>

\* C7 witness: 17 packages, two requests answered with different values
C7_Witness ==
  /\ auth_method = "Oidc"
  /\ hist.auth = "ok"
  /\ N = 17
  /\ hist.oidc_requests = 2
  /\ hist.oidc_log[1] # hist.oidc_log[2]

\* what C8 says of a decoded manifest m and a package
ManifestMatches(m, package) ==
  /\ Cardinality(DOMAIN m.manifest) = Len(package.files)
  /\ \A path \in DOMAIN m.manifest :
       \E i \in 1..Len(package.files) :
         /\ package.files[i].path_str = path
         /\ package.files[i].hash = m.manifest[path]
  /\ \A specifier \in DOMAIN m.exports :
       /\ specifier \in DOMAIN package.exports
       /\ package.exports[specifier] = m.exports[specifier]

\* C8: on a decoded manifest, verify_version_manifest returns ok if and only
\* if the counts are equal, every manifest path is a tarball file with the
\* entry's checksum, and every export of the manifest is in package.exports
\* with the same target
C8_VerifyIffMatches ==
  (v_result.some /\ DecodesAsVersionManifest(v_meta)) =>
    (v_result.v.ok <=> ManifestMatches(VersionManifestOf(v_meta), v_package))

\* C8 witness: ok on a manifest of two files, for a package with an export the
\* manifest does not list
C8_Witness ==
  /\ v_result.some
  /\ v_result.v.ok
  /\ Len(v_package.files) = 2
  /\ DOMAIN v_package.exports = Specifiers
  /\ Cardinality(DOMAIN v_meta.exports.v) = 1

\* C9: verify_version_manifest returns ok on the manifest synthesized from the
\* package's own files and exports
C9_RoundTrip ==
  (v_result.some /\ v_meta = SynthesizedMeta(v_package)) => v_result.v.ok

\* C9 witness: the round trip of a package of two files and two exports
C9_Witness ==
  /\ v_result.some
  /\ v_meta = SynthesizedMeta(v_package)
  /\ Len(v_package.files) = 2
  /\ DOMAIN v_package.exports = Specifiers

\* the manifests C10 is about: bytes that do not decode, or an empty manifest
\* for a tarball with a file
Undecodable(meta, package) ==
  \/ ~DecodesAsVersionManifest(meta)
  \/ (DOMAIN meta.manifest.v = {} /\ Len(package.files) > 0)

\* C10 as stated: on such bytes no provenance bundle is generated or posted
C10_NoBundleOnUndecodable ==
  \A p \in Names :
    (tasks[p].meta.some /\ Undecodable(tasks[p].meta.v, packages[p].content)) =>
      ~tasks[p].bundle /\ ~tasks[p].prov_header.some

\* C10 amended: when verification is not disabled, publish_package fails on
\* such bytes with the verifier's error, and no bundle is generated or posted
C10_NoBundleOnUndecodableIfVerified ==
  \A p \in Names :
    (/\ VerificationEnabled
     /\ tasks[p].meta.some
     /\ Undecodable(tasks[p].meta.v, packages[p].content)) =>
      /\ tasks[p].pc = "err"
      /\ tasks[p].err[1] \in {"decode", "Mismatch in the number of files in the manifest"}
      /\ ~tasks[p].bundle
      /\ ~tasks[p].prov_header.some

\* C10 witness: a task failed on bytes with an entry that lacks its checksum
C10_Witness ==
  \E p \in Names :
    /\ VerificationEnabled
    /\ tasks[p].meta.some
    /\ tasks[p].meta.v.json
    /\ tasks[p].meta.v.manifest.some
    /\ \E path \in DOMAIN tasks[p].meta.v.manifest.v :
         ~tasks[p].meta.v.manifest.v[path].checksum.some
    /\ tasks[p].pc = "err"

\* the server's bytes decode and agree with the package
MetaVerifies(meta, package) ==
  /\ DecodesAsVersionManifest(meta)
  /\ ManifestMatches(VersionManifestOf(meta), package)

\* perform_publish returned an error
ReturnedError == pc = "done" /\ result # None /\ result # Ok

\* C11: with provenance enabled and verification not disabled, a provenance
\* POST is sent only after the fetched manifest verified; on a mismatch the
\* task fails, no bundle is generated or posted, and the run returns an error
C11_ProvenanceAfterVerification ==
  \A p \in Names :
    /\ (/\ ~env.DISABLE_JSR_MANIFEST_VERIFICATION_FOR_TESTING
        /\ tasks[p].prov_header.some) =>
         /\ tasks[p].meta.some
         /\ MetaVerifies(tasks[p].meta.v, packages[p].content)
    /\ (/\ ~env.DISABLE_JSR_MANIFEST_VERIFICATION_FOR_TESTING
        /\ tasks[p].meta.some
        /\ ~MetaVerifies(tasks[p].meta.v, packages[p].content)) =>
         /\ tasks[p].pc = "err"
         /\ ~tasks[p].bundle
         /\ ~tasks[p].prov_header.some
         /\ pc = "done" => ReturnedError

\* C11 witness: the run returned the error of a package whose manifest had a
\* wrong checksum, after another package had sent its provenance POST
C11_Witness ==
  \E p, q \in Names :
    /\ ~env.DISABLE_JSR_MANIFEST_VERIFICATION_FOR_TESTING
    /\ tasks[p].prov_header.some
    /\ tasks[q].meta.some
    /\ DecodesAsVersionManifest(tasks[q].meta.v)
    /\ ~MetaVerifies(tasks[q].meta.v, packages[q].content)
    /\ tasks[q].pc = "err"
    /\ ReturnedError

\* C12: after the duplicateVersionPublish answer with a task of status
\* success, the task is done: no status poll, manifest fetch, bundle or
\* provenance POST, and its only further step is the join that passes it to
\* finish_package and lowers the in_degree of its dependents
C12_DuplicateSuccessShortcut ==
  [][\A p \in Names :
       tasks[p].ended = "duplicate success" =>
         /\ tasks[p].pc = "ok"
         /\ tasks[p].status = ""
         /\ ~tasks[p].meta.some
         /\ ~tasks[p].bundle
         /\ ~tasks[p].prov_header.some
         /\ tasks'[p] # tasks[p] =>
              /\ p \in hist'.finished
              /\ p \in graph'.complete
              /\ \A d \in Names :
                   p \in deps[d] => graph'.in_degree[d] = graph.in_degree[d] - 1]_vars

\* C12 witness: with provenance enabled, a package others depend on was
\* answered duplicateVersionPublish with a task of status success
C12_Witness ==
  \E p \in Names :
    /\ tasks[p].ended = "duplicate success"
    /\ EnableProvenance
    /\ \E d \in Names : p \in deps[d]

\* the task of package p has failed (its future resolved to an error or a panic)
TaskFailed(p) == tasks[p].pc \in {"err", "panicked"}

\* C13 as stated: once some upload task has failed, no upload is started,
\* finish_package is not called, no task takes a step, and what
\* perform_publish returns is the error of a failed task
C13_AbandonOnFirstFailure ==
  [][(\E p \in Names : TaskFailed(p)) =>
       /\ hist'.posted = hist.posted
       /\ hist'.finished = hist.finished
       /\ \A q \in Names : tasks'[q] = tasks[q]
       /\ pc' = "done" =>
            \E p \in Names :
              TaskFailed(p) /\ result' = Err(<<"Failed to publish", p, tasks[p].err>>)]_vars

\* C13 amended: the step in which join_next delivers a failed task returns
\* that task's error and calls neither finish_package nor spawn; after
\* perform_publish has returned nothing changes any more: no upload is
\* started, finish_package is not called, no task issues a request
C13_AbandonAtJoinedFailure ==
  [][/\ \A p \in Names :
          (p \in futures /\ TaskFailed(p) /\ p \notin futures') =>
            /\ pc' = "done"
            /\ result' = Err(<<"Failed to publish", p, tasks[p].err>>)
            /\ hist' = hist
            /\ graph' = graph
            /\ tasks' = tasks
            /\ prepared_package_by_name' = prepared_package_by_name
     /\ pc = "done" => UNCHANGED vars]_vars

\* C13 witness: perform_publish returned the error of one task while another
\* task was polling and a third package had not been started
C13_Witness ==
  \E p, q \in Names :
    /\ ReturnedError
    /\ TaskFailed(p)
    /\ p \notin futures
    /\ result = Err(<<"Failed to publish", p, tasks[p].err>>)
    /\ q \in futures
    /\ tasks[q].pc = "poll"
    /\ prepared_package_by_name # {}

\* C14: once the provenance POST of a package was sent (its publishing task
\* had reached success), publish_package does not fail
C14_ProvenanceFailureIgnored ==
  \A p \in Names : tasks[p].prov_header.some => ~TaskFailed(p)

\* C15: an error response in the existence check, an error of the
\* authorization, of the upload POST or of a status poll propagates:
\* perform_publish returns an error and starts no further work
C15_ErrorsPropagate ==
  /\ (ens.response.some /\ ens.response.v >= 500) => ReturnedError
  /\ hist.auth = "err" => (ReturnedError /\ hist.posted = {})
  /\ (pc = "done" /\ \E p \in Names : TaskFailed(p)) => ReturnedError

\* what C16 calls enabled
ProvenanceEnabledAsStated ==
  \/ ~env.DISABLE_JSR_PROVENANCE
  \/ (env.is_gha /\ env.gha_oidc_token /\ ~env.no_provenance)

C17_StaticTokenNoRequest ==
  auth_method = "Token" =>
    /\ ~hist.auth_requested
    /\ hist.auth # "err"
    /\ pc # "auth" =>
         /\ hist.auth = "ok"
         /\ DOMAIN hist.minted = {KeyAt(i) : i \in Names}
         /\ \A i \in Names : hist.minted[KeyAt(i)] = <<"Bearer", StaticToken>>

\* C17 witness: the static token was mapped to the packages of the largest list
C17_Witness ==
  /\ auth_method = "Token"
  /\ hist.auth = "ok"
  /\ N = MaxAuthPackages

\* C18: every exchange request follows a sleep and carries the exchangeToken
\* of the created authorization and the verifier whose hash was the challenge;
\* after authorizationPending the loop sleeps again; success maps one
\* "Bearer {token}" to all packages; any other error fails the run before any
\* upload
C18_DeviceGrantExchange ==
  auth_method = "Interactive" =>
    /\ auth.exchange_sent.some =>
         /\ auth.exchange_sent.v.slept
         /\ auth.exchange_sent.v.exchangeToken = auth.exchange_token
         /\ auth.exchange_token \in ExchangeTokens
         /\ auth.challenge = <<"base64", "sha256", auth.exchange_sent.v.verifier>>
         /\ pc = "auth"
         /\ auth.step \in {"sleep", "exchange"}
         /\ auth.step = "exchange" <=> auth.slept
    /\ hist.auth = "ok" =>
         \E token \in TokenValues :
           \A i \in Names :
             /\ KeyAt(i) \in DOMAIN hist.minted
             /\ hist.minted[KeyAt(i)] = <<"Bearer", token>>
    /\ hist.auth = "err" => (ReturnedError /\ hist.posted = {} /\ futures = {})

\* C18 witness: an exchange was answered authorizationPending and, after
\* another sleep, the next exchange of a workspace of two is due
C18_Witness ==
  /\ auth_method = "Interactive"
  /\ N = 2
  /\ auth.exchange_sent.some
  /\ auth.exchange_sent.v.verifier = "uuid2"
  /\ auth.step = "exchange"

\* C19: without a terminal the ensurer never polls; if a scope or package
\* answered 404, the run fails with no authorization request and no upload,
\* and the failure that lists the create URLs comes after all packages were
\* checked, with one URL per missing package
C19_NonInteractiveFailsWithList ==
  ~env.stdin_is_terminal =>
    /\ ens.step # "poll"
    /\ (hist.e404 # {} /\ pc # "ensure") =>
         /\ ReturnedError
         /\ hist.auth = "none"
         /\ ~hist.auth_requested
         /\ hist.posted = {}
         /\ futures = {}
         /\ result.err[1] \in {"Following packages don't exist", "ensure"}
         /\ result.err[1] = "Following packages don't exist" =>
              /\ hist.checked = N
              /\ Len(result.err[2]) = Cardinality(hist.e404)
              /\ Range(result.err[2]) = {CreateUrl(i) : i \in hist.e404}

\* C19 witness: both packages of a workspace were missing and the run failed
\* with their two create URLs
C19_Witness ==
  /\ ~env.stdin_is_terminal
  /\ hist.e404 = {1, 2}
  /\ ReturnedError
  /\ result.err[1] = "Following packages don't exist"

\* C20: with a terminal, the poll loop of a missing package is left for the
\* next package or for the authorization only when the package exists on the
\* registry (the poll answered 200), or by a failed request; and no step of
\* the client changes what exists on the registry
C20_InteractivePollsUntilCreated ==
  [][/\ (env.stdin_is_terminal /\ pc = "ensure" /\ ens.step = "poll") =>
          /\ (ens'.step # "poll" /\ pc' # "done") =>
               /\ PkgName(ens.i) \in registry.packages
               /\ IF ens.i < N THEN ens'.i = ens.i + 1 /\ pc' = "ensure"
                  ELSE pc' = "auth"
          /\ pc' \in {"ensure", "auth", "done"}
          /\ pc' = "done" => result' = Err(<<"ensure", "request failed">>)
     /\ registry' # registry =>
          (pc = "ensure" /\ ens.step = "poll" /\ ens' = ens /\ pc' = pc /\ hist' = hist)]_vars

\* C20 witness: both packages were missing, each was polled until the user
\* had created it, and the ensurer returned
C20_Witness ==
  /\ env.stdin_is_terminal
  /\ N = 2
  /\ hist.e404 = {1, 2}
  /\ pc = "auth"

\* the waiting nodes of the order graph: neither pending nor complete
Waiting(g) == Names \ (g.pending \cup g.complete)

\* C21: complete, pending and waiting are pairwise disjoint with union V, and
\* a step moves a node only from waiting to pending or from pending to
\* complete
C21_GraphPartition ==
  [][/\ graph.pending \cap graph.complete = {}
     /\ graph.pending \cup graph.complete \cup Waiting(graph) = DOMAIN graph.in_degree
     /\ DOMAIN graph.in_degree = Names
     /\ graph.complete \subseteq graph'.complete
     /\ (graph'.complete \ graph.complete) \subseteq graph.pending
     /\ (graph'.pending \ graph.pending) \subseteq Waiting(graph)
     /\ (graph.pending \ graph'.pending) \subseteq graph'.complete
     /\ Waiting(graph') \subseteq Waiting(graph)
     /\ graph'.pending \cap graph'.complete = {}]_vars

\* C21 witness: of three packages one is complete, one pending, one waiting
C21_Witness ==
  /\ N = 3
  /\ Cardinality(graph.complete) = 1
  /\ Cardinality(graph.pending) = 1
  /\ Cardinality(Waiting(graph)) = 1

\* C22: perform_publish returns Ok only when the scheduler has drained with
\* every node of the order graph complete
C22_SuccessOnlyIfAllComplete ==
  (pc = "done" /\ result = Ok) =>
    /\ graph.complete = Names
    /\ graph.pending = {}
    /\ futures = {}
    /\ prepared_package_by_name = {}
    /\ hist.finished = Names

\* C22 witness: a workspace of three packages was published
C22_Witness ==
  /\ pc = "done"
  /\ result = Ok
  /\ N = 3
  /\ deps = FanIn(3)

\* every package a depends on, directly or transitively
RECURSIVE DependencyClosure(_, _)
DependencyClosure(S, k) ==
  IF k = 0 THEN S
  ELSE DependencyClosure(S \cup UNION {deps[x] : x \in S}, k - 1)

DependenciesOf(a) == DependencyClosure(deps[a], N)

\* the largest set of packages no two of which are related by a dependency path
Width ==
  LET Antichains == {S \in SUBSET Names :
                       \A a, b \in S : a \notin DependenciesOf(b)}
  IN CHOOSE w \in 0..N :
       /\ \E S \in Antichains : Cardinality(S) = w
       /\ \A S \in Antichains : Cardinality(S) <= w

\* C24: no two packages in flight are related by a dependency path, every
\* package in flight has all its dependencies finished, and (on the small
\* workspaces) the number in flight is at most the width of the graph
C24_InFlightIsAntichain ==
  /\ \A a, b \in futures : a \notin DependenciesOf(b)
  /\ \A a \in futures : deps[a] \subseteq hist.finished
  /\ N <= MaxWidth => Cardinality(futures) <= Width

\* C24 witness: two packages are in flight while the package that depends on
\* both waits
C24_Witness ==
  /\ deps = FanIn(3)
  /\ futures = {1, 2}
  /\ tasks[1].upload_header.some
  /\ tasks[2].upload_header.some

\* C30: an authorization request is sent, and the authorizer returns, only
\* after the ensurer checked every package and returned Ok; after a failure of
\* the ensurer there is no authorization request
C30_EnsureBeforeAuthorization ==
  /\ (hist.auth_requested \/ hist.auth # "none" \/ auth # AuthIdle) =>
       /\ hist.checked = N
       /\ ens = EnsIdle
       /\ \A i \in hist.e404 : env.stdin_is_terminal /\ PkgName(i) \in registry.packages
  /\ (ReturnedError /\ hist.checked < N) => (~hist.auth_requested /\ hist.auth = "none")
  /\ (ReturnedError /\ result.err[1] \in {"ensure", "Following packages don't exist"}) =>
       (~hist.auth_requested /\ hist.auth = "none" /\ hist.posted = {})

\* C30 witness: with a terminal, a missing package was created during the
\* ensurer's polling, and then the device grant was requested
C30_Witness ==
  /\ env.stdin_is_terminal
  /\ hist.e404 # {}
  /\ auth_method = "Interactive"
  /\ hist.auth_requested

\* C23: with --dry-run perform_publish is never called (no existence check,
\* no authorization, no upload), and publish returns Ok, after listing every
\* package, exactly if get_auth_method, the preparation and the diagnostics
\* pass and there is a package
C23_DryRunSendsNothing ==
  publish_flags.dry_run =>
    /\ pc \in {"publish", "done"}
    /\ ens = EnsIdle
    /\ hist.checked = 0
    /\ hist.e404 = {}
    /\ auth = AuthIdle
    /\ ~hist.auth_requested
    /\ hist.auth = "none"
    /\ hist.posted = {}
    /\ futures = {}
    /\ pc = "done" =>
         IF /\ publish_flags.auth_method_ok
            /\ publish_flags.prepare_ok
            /\ publish_flags.diagnostics_ok
            /\ N > 0
         THEN result = Ok /\ hist.listed = Names
         ELSE ReturnedError /\ hist.listed = {}

\* C23 witness: a dry run of a workspace of two failed on its diagnostics
C23_Witness ==
  /\ publish_flags.dry_run
  /\ publish_flags.prepare_ok
  /\ ~publish_flags.diagnostics_ok
  /\ N = 2
  /\ ReturnedError

\* the packages whose publish the client has seen succeed
Published ==
  {p \in Names : \/ p \in hist.finished
                  \/ tasks[p].ended \in {"success", "duplicate success"}}

\* C25: no step withdraws a publish that has completed or an upload that was
\* posted, and the step that returns an error of perform_publish leaves the
\* published packages, the posted uploads and the tasks in flight as they are
C25_NoCancelNoUndo ==
  [][/\ Published \subseteq Published'
     /\ hist.posted \subseteq hist'.posted
     /\ (result = None /\ result' # None /\ result' # Ok) =>
          /\ Published' = Published
          /\ hist'.posted = hist.posted
          /\ hist'.finished = hist.finished
          /\ \A q \in futures' : tasks'[q] = tasks[q]]_vars

\* C25 witness: perform_publish returned an error after one package was
\* published and finished, while another package was never uploaded
C25_Witness ==
  /\ ReturnedError
  /\ \E p \in hist.finished, q \in Names :
        /\ p \in hist.posted
        /\ q \notin hist.posted
        /\ q \notin Published

\* C26: on a registry that answers every poll with a status that is not
\* terminal, a task that polls goes on polling: it never reports success or
\* failure and is never joined, and perform_publish returns only with the
\* error of another task, which failed
C26_NoPollingTimeout ==
  [][\A p \in Names :
       tasks[p].pc = "poll" =>
         /\ tasks'[p].pc = "poll"
         /\ tasks'[p].ended = "none"
         /\ p \in futures'
         /\ p \notin hist'.finished
         /\ (pc # "done" /\ pc' = "done") =>
              \E q \in Names \ {p} :
                /\ TaskFailed(q)
                /\ result' = Err(<<"Failed to publish", q, tasks[q].err>>)]_vars

\* C26 witness: every other package is finished, one task is still polling
\* and perform_publish waits for it
C26_Witness ==
  /\ N = 2
  /\ pc = "join"
  /\ futures = {2}
  /\ tasks[2].pc = "poll"
  /\ hist.finished = {1}

\* the last task the client received for package p, if any: the answer to
\* its last poll, or else the task its upload was answered with
Received(h, p) ==
  IF h.answer[p].kind = "task" THEN Some(h.answer[p].task)
  ELSE IF h.answer[p].kind = "none" /\ h.upload[p].kind \in {"ok", "duplicate"}
  THEN Some(h.upload[p].task)
  ELSE None

Terminal(t) == t.status \in {"success", "failure"}

\* C27: a task is in the polling loop only while the task last received is
\* not terminal; each round sleeps 2 seconds, then asks for the id of the
\* task last received, and replaces the task with the response; the loop is
\* left only on a terminal response or a failed poll, and a failed poll
\* fails the package, which polls no more
C27_PollingLoop ==
  [][\A p \in Names :
       /\ tasks[p].pc = "poll" =>
            /\ Received(hist, p).some
            /\ ~Terminal(Received(hist, p).v)
            /\ tasks[p].id = Received(hist, p).v.id
            /\ tasks[p].status = Received(hist, p).v.status
       /\ (tasks[p].pc = "poll" /\ tasks'[p] # tasks[p]) =>
            /\ hist'.round[p] =
                 <<<<"sleep", 2>>, <<"GET", "publish_status", Received(hist, p).v.id>>>>
            /\ hist'.answer[p].kind \in {"task", "failed"}
            /\ hist'.answer[p].kind = "failed" =>
                 /\ tasks'[p].pc = "err"
                 /\ tasks'[p].err = <<"Failed to get publishing status">>
            /\ hist'.answer[p].kind = "task" =>
                 IF Terminal(hist'.answer[p].task)
                 THEN tasks'[p].pc \in {"err", "meta", "ok"}
                 ELSE /\ tasks'[p].pc = "poll"
                      /\ tasks'[p].id = hist'.answer[p].task.id
                      /\ tasks'[p].status = hist'.answer[p].task.status
       /\ tasks[p].pc # "poll" =>
            /\ hist'.round[p] \in {hist.round[p], <<>>}
            /\ hist'.answer[p] \in {hist.answer[p], [kind |-> "none"]}]_vars

\* C27 witness: a second poll was answered with a terminal task that has
\* another id than the task polled for, and the loop was left
C27_Witness ==
  \E p \in Names :
    /\ hist.upload[p].kind = "ok"
    /\ hist.upload[p].task.id = "id1"
    /\ hist.round[p] = <<<<"sleep", 2>>, <<"GET", "publish_status", "id2">>>>
    /\ hist.answer[p].kind = "task"
    /\ hist.answer[p].task.id = "id1"
    /\ hist.answer[p].task.status = "success"
    /\ tasks[p].pc = "ok"

\* what publish_package does with a task t it has received, as stated: it
\* polls while t is not terminal, fails if t carries an error, and goes on
\* to the provenance otherwise
TreatedAsReceived(tk, t) ==
  IF ~Terminal(t)
  THEN tk.pc = "poll" /\ tk.id = t.id /\ tk.status = t.status /\ tk.ended = "none"
  ELSE IF t.error
  THEN tk.pc = "err" /\ tk.err = <<"Failed to publish", "task error">> /\ tk.ended = "none"
  ELSE /\ tk.pc = IF ProvenanceEnabledAsStated THEN "meta" ELSE "ok"
       /\ tk.ended = t.status

\* C28: no package is posted twice; an upload answered with
\* duplicateVersionPublish and a task that has not succeeded leaves the
\* package where a fresh upload answered with that task leaves it, its polls
\* ask for the id of the embedded task, and the task that ends the polling is
\* checked for its error and followed by the provenance as after any upload
C28_DuplicateAdoptsTask ==
  [][\A p \in Names :
       /\ hist'.posts[p] <= 1
       /\ hist.upload[p].kind = "duplicate" => hist'.posts[p] = hist.posts[p]
       /\ (tasks[p].pc = "post" /\ tasks'[p] # tasks[p]
            /\ hist'.upload[p].kind = "duplicate"
            /\ hist'.upload[p].task.status # "success") =>
            /\ tasks'[p].upload_header = Some(tasks[p].authorization)
            /\ TreatedAsReceived(tasks'[p], hist'.upload[p].task)
       /\ (hist.upload[p].kind = "duplicate" /\ tasks[p].pc = "poll"
            /\ tasks'[p] # tasks[p]) =>
            /\ hist.answer[p].kind = "none" =>
                 hist'.round[p][2] = <<"GET", "publish_status", hist.upload[p].task.id>>
            /\ hist'.answer[p].kind = "task" =>
                 TreatedAsReceived(tasks'[p], hist'.answer[p].task)]_vars

\* C28 witness: the upload was answered with duplicateVersionPublish and a
\* pending task, whose id was polled until it succeeded, and the manifest of
\* the package was fetched for its provenance
C28_Witness ==
  \E p \in Names :
    /\ hist.posts[p] = 1
    /\ hist.upload[p].kind = "duplicate"
    /\ hist.upload[p].task.status = "pending"
    /\ hist.answer[p].kind = "task"
    /\ hist.answer[p].task.status = "success"
    /\ ~hist.answer[p].task.error
    /\ tasks[p].pc = "bundle"

\* the package failed on the error of its task: it is not reported as
\* published, its manifest is not fetched, no provenance is posted,
\* finish_package is not called for it and no dependent of it is uploaded
FailedOnTaskError(p) ==
  /\ tasks[p].pc = "err"
  /\ tasks[p].err = <<"Failed to publish", "task error">>
  /\ tasks[p].ended = "none"
  /\ tasks[p].meta = None
  /\ ~tasks[p].bundle
  /\ tasks[p].prov_header = None
  /\ p \notin hist.finished
  /\ p \notin graph.complete
  /\ \A q \in Names : p \in DependenciesOf(q) => q \notin hist.posted
  /\ pc = "done" => result = Err(<<"Failed to publish", p, tasks[p].err>>)

\* C29 as stated: whenever the last task received for a package is terminal
\* and carries an error, the package has failed on that error
C29_TaskErrorFails ==
  \A p \in Names :
    (/\ Received(hist, p).some
     /\ Terminal(Received(hist, p).v)
     /\ Received(hist, p).v.error) => FailedOnTaskError(p)

\* the upload of p was answered with duplicateVersionPublish and a task of
\* status "success", on which publish_package returns Ok at once
SkippedAsPublished(p) ==
  /\ hist.upload[p].kind = "duplicate"
  /\ hist.upload[p].task.status = "success"

\* C29 amended: whenever the last task received for a package is terminal
\* and carries an error, the package has failed on that error, unless the
\* task came with duplicateVersionPublish and has status "success"
C29_TaskErrorFailsAfterLoop ==
  \A p \in Names :
    (/\ Received(hist, p).some
     /\ Terminal(Received(hist, p).v)
     /\ Received(hist, p).v.error
     /\ ~SkippedAsPublished(p)) => FailedOnTaskError(p)

\* C29 witness: the first package of a chain was polled until its task came
\* back with status "success" and an error, and perform_publish returned
\* that failure without having uploaded the second package
C29_Witness ==
  /\ N = 2
  /\ hist.answer[1].kind = "task"
  /\ hist.answer[1].task.status = "success"
  /\ hist.answer[1].task.error
  /\ tasks[1].pc = "err"
  /\ pc = "done"
  /\ 2 \notin hist.posted

\* every publishing task reaches a terminal status: no package is polled
\* for ever
TasksEnd ==
  \A p \in 1..MaxLive : []<>(p \in Names => tasks[p].pc # "poll")

\* the waits for the user end: a missing package is created and found, the
\* authorization is approved or refused
UserActs ==
  /\ []<>(~(pc = "ensure" /\ ens.step = "poll"))
  /\ []<>(~(pc = "auth" /\ auth.step \in {"sleep", "exchange"}))

C32_StartedAtMostOnce ==
  /\ \A p \in Names : hist.returned[p] <= 1
  /\ \A p \in Names :
       hist.returned[p] = 0 <=>
         (p \in prepared_package_by_name /\ tasks[p].pc = "idle")
  /\ pc \in {"loop", "join", "done"} /\ hist.auth = "ok" =>
       \A p \in Names :
         hist.returned[p] = 0 <=> AuthKey(packages[p]) \in DOMAIN authorizations
  /\ pc = "loop" =>
       \A p \in Ready(graph) :
         /\ hist.returned[p] = 0
         /\ p \in prepared_package_by_name
         /\ AuthKey(packages[p]) \in DOMAIN authorizations
  /\ result # Err(<<"panic", "unwrap of None">>)
  /\ (pc = "done" /\ result = Ok) =>
       /\ \A p \in Names : hist.returned[p] = 1
       /\ hist.finished = Names
       /\ futures = {}
       /\ prepared_package_by_name = {}
       /\ DOMAIN authorizations = {}

\* C32 witness: perform_publish returned Ok for a chain of more packages
\* than one OIDC chunk holds, each started once
C32_Witness ==
  /\ N > ChunkSize
  /\ pc = "done"
  /\ result = Ok
  /\ \A p \in Names : hist.returned[p] = 1
  /\ prepared_package_by_name = {}

====
